---- MODULE Spec2Model ----
(***************************************************************************)
(* Rule matching and response execution of deepmock: the filter chain,     *)
(* the weighted selector, the regulation-set check, the regulation lookup  *)
(* and the mocked-API handler with its renderer.                           *)
(*                                                                         *)
(* Byte strings are sequences over Alphabet; a nil []byte and an empty one *)
(* are both << >> (bytes.Compare and bytes.Contains do not tell them       *)
(* apart).  A Go map is a function whose domain is its key set.  A nil     *)
(* pointer is a record with isNil = TRUE.                                  *)
(***************************************************************************)
EXTENDS Integers, Sequences, FiniteSets, TLC

VARIABLES
    fe,                 \* the FilterExecutor under evaluation
    request,            \* the request: method, path, header, query, body
    spc, hret, qret,    \* sub-filter calls: position, header result, query result
    fpc, calls, fret,   \* FilterExecutor.Filter: position, sub-filters called, result
    mrs, cpc, cret,     \* ResourceResponseRegulationSet.check: the set, position, error
    weight, wp,         \* the configured weight groups and the WeightPicker built from them
    dpc, drawn,         \* DiceAll: position and outcome
    exe, findpc, fre,   \* FindRegulationExecutor: the executor, position, result
    registry,           \* the rule manager's installed executors
    pc,                 \* HandleMockedAPI: position
    steps,              \* the request's steps so far
    idx,                \* the loop's position in the regulations
    defaultRegulation,  \* index of the default regulation seen so far, 0 for nil
    selected,           \* index of the regulation handed to render, 0 for none
    evaluated,          \* indexes of the regulations whose filter was called
    response,           \* ctx.Response: status code, content type, body
    written,            \* pieces the template wrote to the body writer
    renderErr           \* the error template execution returned, "" for nil

subVars == <<spc, hret, qret>>
filterVars == <<fpc, calls, fret>>
checkVars == <<mrs, cpc, cret>>
diceVars == <<weight, wp, dpc, drawn>>
findVars == <<exe, findpc, fre>>
handlerVars == <<registry, pc, steps, idx, defaultRegulation, selected, evaluated,
                 response, written, renderErr>>
vars == <<fe, request, subVars, filterVars, checkVars, diceVars, findVars, handlerVars>>

----------------------------------------------------------------------------
(* Bounds and value universes *)

MaxLen == 2
MaxParamLen == 1

Alphabet == {"a", "b"}
Keys == {"k1", "k2"}

RECURSIVE SeqsUpTo(_, _)
SeqsUpTo(S, n) ==
    IF n = 0 THEN {<< >>}
    ELSE LET shorter == SeqsUpTo(S, n - 1)
         IN  shorter \cup {Append(s, x) : s \in {t \in shorter : Len(t) = n - 1}, x \in S}

Values == SeqsUpTo(Alphabet, MaxLen)
ParamValues == SeqsUpTo(Alphabet, MaxParamLen)

MapsOver(K, V) == UNION {[D -> V] : D \in SUBSET K}
EmptyMap == CHOOSE m \in MapsOver(Keys, Values) : DOMAIN m = {}

----------------------------------------------------------------------------
(* Library calls the filters make *)

\* fasthttp RequestHeader.Peek / Args.Peek: the value of the key, empty when absent
Peek(m, k) == IF k \in DOMAIN m THEN m[k] ELSE << >>

\* bytes.Compare(a, b) == 0
BytesEqual(a, b) == a = b

\* bytes.Contains(b, sub)
Contains(b, sub) ==
    \E i \in 1..(Len(b) + 1) :
        /\ i + Len(sub) - 1 <= Len(b)
        /\ SubSeq(b, i, i + Len(sub) - 1) = sub

\* regexp.Regexp.Match for a pattern without metacharacters: an unanchored
\* literal, found anywhere in b
RegexpMatch(pattern, b) == Contains(b, pattern)

----------------------------------------------------------------------------
(* Filter modes *)

FilterModeAlwaysTrue == "always_true"
FilterModeExact == "exact"
FilterModeKeyword == "keyword"
FilterModeRegular == "regular"
FilterModeOther == "unknown"
FilterModes == {FilterModeAlwaysTrue, FilterModeExact, FilterModeKeyword,
                FilterModeRegular, FilterModeOther}

\* HeaderFilterExecutor / QueryFilterExecutor: regulars[k] is the pattern
\* compiled from params[k]
KVFilterExecutor(mode, params) == [isNil |-> FALSE, mode |-> mode, params |-> params]
NilKVFilter == [isNil |-> TRUE, mode |-> FilterModeAlwaysTrue, params |-> EmptyMap]
BodyFilterExecutor(mode, keyword) == [isNil |-> FALSE, mode |-> mode, keyword |-> keyword]
NilBodyFilter == [isNil |-> TRUE, mode |-> FilterModeAlwaysTrue, keyword |-> << >>]

HeaderFilterByExactKeyValue(hfe, header) ==
    \A k \in DOMAIN hfe.params : BytesEqual(Peek(header, k), hfe.params[k])

HeaderFilterByKeyword(hfe, header) ==
    \A k \in DOMAIN hfe.params : Contains(Peek(header, k), hfe.params[k])

HeaderFilterByRegular(hfe, header) ==
    \A k \in DOMAIN hfe.params : RegexpMatch(hfe.params[k], Peek(header, k))

\* faulty variant: the exact mode dispatched to the containment comparison
HeaderFilter_ExactByKeyword(hfe, header) ==
    IF hfe.isNil THEN TRUE
    ELSE CASE hfe.mode = FilterModeAlwaysTrue -> TRUE
           [] hfe.mode = FilterModeExact -> HeaderFilterByKeyword(hfe, header)
           [] hfe.mode = FilterModeKeyword -> HeaderFilterByExactKeyValue(hfe, header)
           [] hfe.mode = FilterModeRegular -> HeaderFilterByRegular(hfe, header)
           [] OTHER -> FALSE

HeaderFilter(hfe, header) ==
    IF hfe.isNil THEN TRUE
    ELSE CASE hfe.mode = FilterModeAlwaysTrue -> TRUE
           [] hfe.mode = FilterModeExact -> HeaderFilterByExactKeyValue(hfe, header)
           [] hfe.mode = FilterModeKeyword -> HeaderFilterByExactKeyValue(hfe, header)
           [] hfe.mode = FilterModeRegular -> HeaderFilterByRegular(hfe, header)
           [] OTHER -> FALSE

QueryFilterByExactKeyValue(qfe, args) ==
    \A k \in DOMAIN qfe.params : BytesEqual(Peek(args, k), qfe.params[k])

QueryFilterByKeyword(qfe, args) ==
    \A k \in DOMAIN qfe.params : Contains(Peek(args, k), qfe.params[k])

QueryFilterByRegular(qfe, args) ==
    \A k \in DOMAIN qfe.params : RegexpMatch(qfe.params[k], Peek(args, k))

QueryFilter(qfe, args) ==
    IF qfe.isNil THEN TRUE
    ELSE CASE qfe.mode = FilterModeAlwaysTrue -> TRUE
           [] qfe.mode = FilterModeExact -> QueryFilterByExactKeyValue(qfe, args)
           [] qfe.mode = FilterModeKeyword -> QueryFilterByExactKeyValue(qfe, args)
           [] qfe.mode = FilterModeRegular -> QueryFilterByRegular(qfe, args)
           [] OTHER -> FALSE

BodyFilter(bfe, body) ==
    IF bfe.isNil THEN TRUE
    ELSE CASE bfe.mode = FilterModeAlwaysTrue -> TRUE
           [] bfe.mode = FilterModeKeyword -> Contains(body, bfe.keyword)
           [] bfe.mode = FilterModeRegular -> RegexpMatch(bfe.keyword, body)
           [] OTHER -> FALSE

FilterExecutor(h, q, b) == [isNil |-> FALSE, Header |-> h, Query |-> q, Body |-> b]
NilFilter == [isNil |-> TRUE, Header |-> NilKVFilter, Query |-> NilKVFilter,
              Body |-> NilBodyFilter]

Request(method, path, header, query, body) ==
    [method |-> method, path |-> path, header |-> header, query |-> query, body |-> body]

\* FilterExecutor.Filter as one call
FilterExecutorFilter(f, req) ==
    IF f.isNil THEN TRUE
    ELSE IF ~HeaderFilter(f.Header, req.header) THEN FALSE
    ELSE IF ~QueryFilter(f.Query, req.query) THEN FALSE
    ELSE IF ~BodyFilter(f.Body, req.body) THEN FALSE
    ELSE TRUE

----------------------------------------------------------------------------
(* The regulation set of a rule resource and its check.  An error is its   *)
(* message, "" for nil.                                                    *)

MaxSetLen == 3

\* ResourceResponseRegulation: is_default and whether a filter is given
ResourceResponseRegulation(isDefault, hasFilter) ==
    [IsDefault |-> isDefault, hasFilter |-> hasFilter]

ResourceResponseRegulationSet(items) == [isNil |-> FALSE, items |-> items]
NilRegulationSet == [isNil |-> TRUE, items |-> << >>]

RegulationCheck(rmr) ==
    IF ~rmr.IsDefault /\ ~rmr.hasFilter
    THEN "missing filter rule, or set as default response"
    ELSE ""

RECURSIVE CheckLoop(_, _, _)
CheckLoop(items, i, d) ==
    IF i > Len(items)
    THEN IF d # 1 THEN "no default response or provided more than one" ELSE ""
    ELSE LET d1 == IF items[i].IsDefault THEN d + 1 ELSE d
             err == RegulationCheck(items[i])
         IN  IF err # "" THEN err ELSE CheckLoop(items, i + 1, d1)

RECURSIVE CheckLoop_AtLeastOne(_, _, _)
CheckLoop_AtLeastOne(items, i, d) ==
    IF i > Len(items)
    THEN IF d < 1 THEN "no default response or provided more than one" ELSE ""
    ELSE LET d1 == IF items[i].IsDefault THEN d + 1 ELSE d
             err == RegulationCheck(items[i])
         IN  IF err # "" THEN err ELSE CheckLoop_AtLeastOne(items, i + 1, d1)

\* faulty variant: the count of defaults compared with d < 1 instead of d != 1
RegulationSetCheck_AtLeastOne(set) ==
    IF set.isNil THEN "missing mock response" ELSE CheckLoop_AtLeastOne(set.items, 1, 0)

RegulationSetCheck(set) ==
    IF set.isNil THEN "missing mock response" ELSE CheckLoop(set.items, 1, 0)

----------------------------------------------------------------------------
(* The weighted selector *)

MaxFactor == 2

Groups == {"g1", "g2"}
Variants == {"A", "B"}
Panic == "panic"

\* the orders in which a range over a Go map may visit the keys S
Orders(S) ==
    {o \in [1..Cardinality(S) -> S] : \A i, j \in DOMAIN o : i # j => o[i] # o[j]}

RECURSIVE Repeat(_, _)
Repeat(k, n) == IF n = 0 THEN << >> ELSE <<k>> \o Repeat(k, n - 1)

RECURSIVE Distribute(_, _, _)
Distribute(factor, order, i) ==
    IF i > Len(order) THEN << >>
    ELSE Repeat(order[i], factor[order[i]]) \o Distribute(factor, order, i + 1)

\* NewWeightDice, the range over factor visiting the keys in `order`
NewWeightDice(factor, order) ==
    LET distribution == Distribute(factor, order, 1)
    IN  [total |-> Len(distribution), distribution |-> distribution, factor |-> factor]

\* WeightDice.Dice: distribution[rand.Intn(total)]; rand.Intn panics when
\* total <= 0
Dice(wd) ==
    IF wd.total <= 0 THEN {Panic}
    ELSE {wd.distribution[n + 1] : n \in 0..(wd.total - 1)}

FactorMaps == MapsOver(Variants, 0..MaxFactor)
EmptyPicker == CHOOSE m \in MapsOver(Groups, {0}) : DOMAIN m = {}
NoDraw == [panicked |-> FALSE, ret |-> EmptyPicker]

----------------------------------------------------------------------------
(* The compiled rule: templates, regulations, executor *)

MaxRegs == 3

Bytes(b) == [json |-> FALSE, code |-> 0, text |-> b]
\* json.Marshal of a CommonResource without data
Envelope(code, msg) == [json |-> TRUE, code |-> code, text |-> msg]

ResponseHeader(statusCode, contentType) ==
    [statusCode |-> statusCode, contentType |-> contentType]

\* newResponseTemplate: the header carries the status code and the configured
\* headers; body is the literal body, and for a template the pieces its
\* execution writes
StaticTemplate ==
    [isTemplate |-> FALSE, header |-> ResponseHeader(200, "text/plain"),
     body |-> <<Bytes("ok")>>]
GoTemplate ==
    [isTemplate |-> TRUE, header |-> ResponseHeader(201, "text/html"),
     body |-> <<Bytes("Hello "), Bytes("Alice")>>]
Templates == {StaticTemplate, GoTemplate}

RegulationExecutor(isDefault, filter, template) ==
    [IsDefault |-> isDefault, Filter |-> filter, Template |-> template]

K1A == "k1" :> <<"a">>

RegulationFilters ==
    {NilFilter,
     FilterExecutor(NilKVFilter, NilKVFilter, NilBodyFilter),
     FilterExecutor(KVFilterExecutor(FilterModeExact, K1A), NilKVFilter, NilBodyFilter),
     FilterExecutor(NilKVFilter, NilKVFilter, BodyFilterExecutor(FilterModeKeyword, <<"b">>))}

Executor(method, path, regulations) ==
    [Method |-> method, Path |-> path, Regulations |-> regulations]

Match(e, path, method) ==
    IF ~BytesEqual(method, e.Method) THEN FALSE ELSE RegexpMatch(e.Path, path)

RECURSIVE FindLoop(_, _, _, _, _)
FindLoop(regs, req, i, reg, seen) ==
    IF i > Len(regs) THEN [reg |-> reg, evaluated |-> seen]
    ELSE LET reg1 == IF regs[i].IsDefault THEN i ELSE reg
         IN  IF FilterExecutorFilter(regs[i].Filter, req)
             THEN [reg |-> i, evaluated |-> Append(seen, i)]
             ELSE FindLoop(regs, req, i + 1, reg1, Append(seen, i))

RECURSIVE FindLoop_NoDefault(_, _, _, _)
FindLoop_NoDefault(regs, req, i, seen) ==
    IF i > Len(regs) THEN [reg |-> 0, evaluated |-> seen]
    ELSE IF FilterExecutorFilter(regs[i].Filter, req)
         THEN [reg |-> i, evaluated |-> Append(seen, i)]
         ELSE FindLoop_NoDefault(regs, req, i + 1, Append(seen, i))

\* faulty variant: the default regulation is not remembered
FindRegulationExecutor_NoDefault(e, req) == FindLoop_NoDefault(e.Regulations, req, 1, << >>)

\* Executor.FindRegulationExecutor: the index of the regulation returned (0
\* for nil) and the indexes of the regulations whose filter was called
FindRegulationExecutor(e, req) == FindLoop(e.Regulations, req, 1, 0, << >>)

NoExecutor == Executor(<< >>, << >>, << >>)
NoResult == [reg |-> 0, evaluated |-> << >>]

\* a fresh fasthttp response
FreshResponse ==
    [statusCode |-> 200, contentType |-> "text/plain; charset=utf-8", body |-> << >>]

HandlerRequests ==
    {Request(m, p, h, EmptyMap, b) :
        m \in {<<"a">>, <<"b">>}, p \in {<<"a">>, <<"b">>},
        h \in {EmptyMap, K1A}, b \in {<< >>, <<"b">>}}

----------------------------------------------------------------------------
(* What each specification leaves alone *)

IdleSub == spc = "idle" /\ hret = FALSE /\ qret = FALSE
IdleFilter == fpc = "idle" /\ calls = << >> /\ fret = FALSE
IdleCheck == mrs = NilRegulationSet /\ cpc = "idle" /\ cret = ""
IdleDice == weight = EmptyPicker /\ wp = EmptyPicker /\ dpc = "idle" /\ drawn = NoDraw
IdleFind == exe = NoExecutor /\ findpc = "idle" /\ fre = NoResult
IdleHandler ==
    /\ registry = << >> /\ pc = "off" /\ steps = << >> /\ idx = 0
    /\ defaultRegulation = 0 /\ selected = 0 /\ evaluated = << >>
    /\ response = FreshResponse /\ written = 0 /\ renderErr = ""
IdleFilterInput ==
    /\ fe = NilFilter
    /\ request = Request(<< >>, << >>, EmptyMap, EmptyMap, << >>)

----------------------------------------------------------------------------
(* SpecSub: the header and the query sub-filter, each called once on every *)
(* mode, parameter map and request map within the bounds                   *)

InitSub ==
    /\ \E mode \in FilterModes, params \in MapsOver(Keys, ParamValues),
          kv \in MapsOver(Keys, Values) :
            /\ fe = FilterExecutor(KVFilterExecutor(mode, params),
                                   KVFilterExecutor(mode, params), NilBodyFilter)
            /\ request = Request(<<"a">>, <<"a">>, kv, kv, << >>)
    /\ spc = "start" /\ hret = FALSE /\ qret = FALSE
    /\ IdleFilter /\ IdleCheck /\ IdleDice /\ IdleFind /\ IdleHandler

CallHeaderFilter ==
    /\ spc = "start"
    /\ hret' = HeaderFilter(fe.Header, request.header)
    /\ spc' = "header"
    /\ UNCHANGED <<fe, request, qret, filterVars, checkVars, diceVars, findVars, handlerVars>>

CallQueryFilter ==
    /\ spc = "header"
    /\ qret' = QueryFilter(fe.Query, request.query)
    /\ spc' = "done"
    /\ UNCHANGED <<fe, request, hret, filterVars, checkVars, diceVars, findVars, handlerVars>>

NextSub == CallHeaderFilter \/ CallQueryFilter

SpecSub == InitSub /\ [][NextSub]_vars


\* C4: in keyword mode the header filter and the query filter pass exactly
\* when every configured key's request value contains the configured keyword
\* as a substring.
KeywordModeIsContainment ==
    (spc = "done" /\ fe.Header.mode = FilterModeKeyword) =>
        /\ hret = (\A k \in DOMAIN fe.Header.params :
                      Contains(Peek(request.header, k), fe.Header.params[k]))
        /\ qret = (\A k \in DOMAIN fe.Query.params :
                      Contains(Peek(request.query, k), fe.Query.params[k]))

\* C5 as stated: in exact mode the filters pass exactly when every configured
\* key is present in the request with a byte-equal value, so a missing key
\* fails for every configured value, the empty one included.
ExactModeRequiresPresence ==
    (spc = "done" /\ fe.Header.mode = FilterModeExact) =>
        /\ hret = (\A k \in DOMAIN fe.Header.params :
                      k \in DOMAIN request.header
                      /\ request.header[k] = fe.Header.params[k])
        /\ qret = (\A k \in DOMAIN fe.Query.params :
                      k \in DOMAIN request.query
                      /\ request.query[k] = fe.Query.params[k])

KeyAgrees(m, k, v) ==
    \/ k \in DOMAIN m /\ m[k] = v
    \/ k \notin DOMAIN m /\ v = << >>

\* C5 amended: in exact mode the filters pass exactly when every configured
\* key is either present with a byte-equal value, or absent while its
\* configured value is empty; a present key with a different value fails, and
\* a missing key fails when its configured value is not empty.
ExactModeAbsentReadsEmpty ==
    (spc = "done" /\ fe.Header.mode = FilterModeExact) =>
        /\ hret = (\A k \in DOMAIN fe.Header.params :
                      KeyAgrees(request.header, k, fe.Header.params[k]))
        /\ qret = (\A k \in DOMAIN fe.Query.params :
                      KeyAgrees(request.query, k, fe.Query.params[k]))
        /\ (\E k \in DOMAIN fe.Header.params :
               k \notin DOMAIN request.header /\ fe.Header.params[k] # << >>)
             => (~hret /\ ~qret)

\* exact mode, two configured keys, one present and equal, the other missing
\* with an empty configured value: both filters pass
ExactMissingEmptyKeyPasses ==
    /\ spc = "done"
    /\ fe.Header.mode = FilterModeExact
    /\ DOMAIN fe.Header.params = Keys
    /\ \E k \in Keys : k \notin DOMAIN request.header /\ fe.Header.params[k] = << >>
    /\ \E k \in Keys : k \in DOMAIN request.header /\ fe.Header.params[k] # << >>
    /\ hret /\ qret

----------------------------------------------------------------------------
(* SpecFilter: FilterExecutor.Filter, one step per sub-filter call *)

SmallKVFilters ==
    {NilKVFilter} \cup
    {KVFilterExecutor(m, K1A) : m \in {FilterModeAlwaysTrue, FilterModeExact, FilterModeOther}}

SmallBodyFilters ==
    {NilBodyFilter} \cup
    {BodyFilterExecutor(m, <<"b">>) :
        m \in {FilterModeAlwaysTrue, FilterModeKeyword, FilterModeExact}}

SmallFilters ==
    {NilFilter} \cup
    {FilterExecutor(h, q, b) :
        h \in SmallKVFilters, q \in SmallKVFilters, b \in SmallBodyFilters}

SmallRequests ==
    {Request(<<"a">>, <<"a">>, h, q, b) :
        h \in {EmptyMap, K1A}, q \in {EmptyMap, K1A}, b \in {<< >>, <<"b">>}}

InitFilter ==
    /\ fe \in SmallFilters
    /\ request \in SmallRequests
    /\ fpc = "start" /\ calls = << >> /\ fret = FALSE
    /\ IdleSub /\ IdleCheck /\ IdleDice /\ IdleFind /\ IdleHandler

FilterEnter ==
    /\ fpc = "start"
    /\ IF fe.isNil
       THEN fret' = TRUE /\ fpc' = "done"
       ELSE fret' = fret /\ fpc' = "header"
    /\ UNCHANGED <<fe, request, calls, subVars, checkVars, diceVars, findVars, handlerVars>>

\* faulty variant: the header verdict is not acted on
FilterHeader_NoReturn ==
    /\ fpc = "header"
    /\ calls' = Append(calls, "header")
    /\ fpc' = "query"
    /\ UNCHANGED <<fe, request, fret, subVars, checkVars, diceVars, findVars, handlerVars>>

FilterHeader ==
    /\ fpc = "header"
    /\ calls' = Append(calls, "header")
    /\ IF ~HeaderFilter(fe.Header, request.header)
       THEN fret' = FALSE /\ fpc' = "done"
       ELSE fret' = fret /\ fpc' = "query"
    /\ UNCHANGED <<fe, request, subVars, checkVars, diceVars, findVars, handlerVars>>

FilterQuery ==
    /\ fpc = "query"
    /\ calls' = Append(calls, "query")
    /\ IF ~QueryFilter(fe.Query, request.query)
       THEN fret' = FALSE /\ fpc' = "done"
       ELSE fret' = fret /\ fpc' = "body"
    /\ UNCHANGED <<fe, request, subVars, checkVars, diceVars, findVars, handlerVars>>

FilterBody ==
    /\ fpc = "body"
    /\ calls' = Append(calls, "body")
    /\ fret' = BodyFilter(fe.Body, request.body)
    /\ fpc' = "done"
    /\ UNCHANGED <<fe, request, subVars, checkVars, diceVars, findVars, handlerVars>>

NextFilter == FilterEnter \/ FilterHeader \/ FilterQuery \/ FilterBody

SpecFilter == InitFilter /\ [][NextFilter]_vars

HeaderPasses == HeaderFilter(fe.Header, request.header)
QueryPasses == QueryFilter(fe.Query, request.query)
BodyPasses == BodyFilter(fe.Body, request.body)

\* C6: Filter returns true exactly when the header, query and body sub-filters
\* all pass (a nil FilterExecutor passes, a nil sub-filter passes); the
\* sub-filters are called in the order header, query, body and no sub-filter
\* is called after one that failed.
FilterShortCircuits ==
    /\ \E n \in 0..3 : calls = SubSeq(<<"header", "query", "body">>, 1, n)
    /\ fpc = "done" =>
        /\ fret = (fe.isNil \/ (HeaderPasses /\ QueryPasses /\ BodyPasses))
        /\ (~fe.isNil /\ fe.Header.isNil /\ fe.Query.isNil /\ fe.Body.isNil) => fret
        /\ (~fe.isNil /\ ~HeaderPasses) => calls = <<"header">>
        /\ (~fe.isNil /\ HeaderPasses /\ ~QueryPasses) => calls = <<"header", "query">>
        /\ fret => (fe.isNil \/ calls = <<"header", "query", "body">>)

\* the header filter failed although the query and body filters would have
\* passed, and only the header filter was called
HeaderFailureStopsFilter ==
    /\ fpc = "done" /\ ~fe.isNil
    /\ ~fe.Header.isNil /\ ~fe.Query.isNil /\ ~fe.Body.isNil
    /\ ~HeaderPasses /\ QueryPasses /\ BodyPasses
    /\ calls = <<"header">> /\ ~fret

----------------------------------------------------------------------------
(* SpecCheck: ResourceResponseRegulationSet.check on every regulation set  *)
(* within the bounds, the nil set included                                 *)

ResourceRegulations ==
    {ResourceResponseRegulation(d, f) : d \in BOOLEAN, f \in BOOLEAN}

InitCheck ==
    /\ mrs \in {NilRegulationSet} \cup
               {ResourceResponseRegulationSet(items) :
                    items \in SeqsUpTo(ResourceRegulations, MaxSetLen)}
    /\ cpc = "start" /\ cret = ""
    /\ IdleFilterInput /\ IdleSub /\ IdleFilter /\ IdleDice /\ IdleFind /\ IdleHandler

Check ==
    /\ cpc = "start"
    /\ cret' = RegulationSetCheck(mrs)
    /\ cpc' = "done"
    /\ UNCHANGED <<fe, request, mrs, subVars, filterVars, diceVars, findVars, handlerVars>>

NextCheck == Check

SpecCheck == InitCheck /\ [][NextCheck]_vars

Defaults(items) == {i \in DOMAIN items : items[i].IsDefault}

\* C3: check accepts a regulation set only if exactly one regulation is the
\* default and every non-default regulation carries a filter; a set that is
\* nil, empty, without a default, with more than one default, or with a
\* non-default regulation lacking a filter is rejected with an error.
CheckAcceptsOneDefault ==
    cpc = "done" =>
        /\ (cret = "") <=>
              /\ ~mrs.isNil
              /\ Cardinality(Defaults(mrs.items)) = 1
              /\ \A i \in DOMAIN mrs.items :
                    ~mrs.items[i].IsDefault => mrs.items[i].hasFilter
        /\ mrs.isNil => cret # ""
        /\ mrs.items = << >> => cret # ""
        /\ Cardinality(Defaults(mrs.items)) = 0 => cret # ""
        /\ Cardinality(Defaults(mrs.items)) > 1 => cret # ""
        /\ (\E i \in DOMAIN mrs.items :
               ~mrs.items[i].IsDefault /\ ~mrs.items[i].hasFilter) => cret # ""

\* a set with two defaults, every regulation carrying a filter, was rejected
TwoDefaultsRejected ==
    /\ cpc = "done"
    /\ Cardinality(Defaults(mrs.items)) = 2
    /\ \A i \in DOMAIN mrs.items : mrs.items[i].hasFilter
    /\ cret = "no default response or provided more than one"

----------------------------------------------------------------------------
(* SpecDice: a WeightPicker built from every weight configuration within   *)
(* the bounds, then drawn                                                  *)

InitDice ==
    /\ weight \in MapsOver(Groups, FactorMaps)
    /\ wp = EmptyPicker /\ dpc = "build" /\ drawn = NoDraw
    /\ IdleFilterInput /\ IdleSub /\ IdleFilter /\ IdleCheck /\ IdleFind /\ IdleHandler

\* one NewWeightDice per configured group
NewWeightPicker ==
    /\ dpc = "build"
    /\ \E order \in [DOMAIN weight -> UNION {Orders(S) : S \in SUBSET Variants}] :
          /\ \A g \in DOMAIN weight : order[g] \in Orders(DOMAIN weight[g])
          /\ wp' = [g \in DOMAIN weight |-> NewWeightDice(weight[g], order[g])]
    /\ dpc' = "built"
    /\ UNCHANGED <<fe, request, weight, drawn, subVars, filterVars, checkVars, findVars,
                   handlerVars>>

DiceAll ==
    /\ dpc = "built"
    /\ \E ret \in [DOMAIN wp -> Variants \cup {Panic}] :
          /\ \A g \in DOMAIN wp : ret[g] \in Dice(wp[g])
          /\ drawn' = IF \E g \in DOMAIN wp : ret[g] = Panic
                      THEN [panicked |-> TRUE, ret |-> EmptyPicker]
                      ELSE [panicked |-> FALSE, ret |-> ret]
    /\ dpc' = "drawn"
    /\ UNCHANGED <<fe, request, weight, wp, subVars, filterVars, checkVars, findVars,
                   handlerVars>>

NextDice == NewWeightPicker \/ DiceAll

SpecDice == InitDice /\ [][NextDice]_vars

\* C10: a group whose total weight is zero fails when its dice is built:
\* no built dice has total = 0, so DiceAll never fails and returns for every
\* configured group a variant of that group whose factor is greater than 0.
ZeroWeightFailsAtBuild ==
    dpc = "drawn" =>
        /\ ~drawn.panicked
        /\ \A g \in DOMAIN wp : wp[g].total > 0
        /\ DOMAIN drawn.ret = DOMAIN weight
        /\ \A g \in DOMAIN weight :
              drawn.ret[g] \in DOMAIN weight[g] /\ weight[g][drawn.ret[g]] > 0

----------------------------------------------------------------------------
(* SpecFind: FindRegulationExecutor on every executor within the bounds,   *)
(* whatever the number of defaults among its regulations                   *)

FindRegulations ==
    {RegulationExecutor(d, f, StaticTemplate) : d \in BOOLEAN, f \in RegulationFilters}

InitFind ==
    /\ exe \in {Executor(<<"a">>, <<"a">>, regs) : regs \in SeqsUpTo(FindRegulations, MaxRegs)}
    /\ request \in HandlerRequests
    /\ fe = NilFilter
    /\ findpc = "start" /\ fre = NoResult
    /\ IdleSub /\ IdleFilter /\ IdleCheck /\ IdleDice /\ IdleHandler

Find ==
    /\ findpc = "start"
    /\ fre' = FindRegulationExecutor(exe, request)
    /\ findpc' = "done"
    /\ UNCHANGED <<fe, request, exe, subVars, filterVars, checkVars, diceVars, handlerVars>>

NextFind == Find

SpecFind == InitFind /\ [][NextFind]_vars

Passes(regs, i) == FilterExecutorFilter(regs[i].Filter, request)

\* C2: for an executor with exactly one default regulation, when no
\* non-default regulation's filter passes, FindRegulationExecutor returns the
\* default regulation, whether or not the default's own filter passes and
\* wherever the default sits; the result is not nil.
DefaultIsFallback ==
    LET regs == exe.Regulations
    IN  (/\ findpc = "done"
         /\ Cardinality(Defaults(regs)) = 1
         /\ \A i \in DOMAIN regs : ~regs[i].IsDefault => ~Passes(regs, i))
        => (fre.reg # 0 /\ fre.reg \in Defaults(regs))

\* the default sits first, its own filter fails, the non-default after it
\* fails too, and the default was returned
FailingDefaultReturned ==
    LET regs == exe.Regulations
    IN  /\ findpc = "done"
        /\ Len(regs) = 2
        /\ regs[1].IsDefault /\ ~regs[2].IsDefault
        /\ ~Passes(regs, 1) /\ ~Passes(regs, 2)
        /\ fre.reg = 1 /\ fre.evaluated = <<1, 2>>

----------------------------------------------------------------------------
(* Spec: the rule manager receives one rule, then HandleMockedAPI serves a *)
(* request, one step per statement group.  The render context (rule        *)
(* context, weight draw, query, form, json) only feeds template execution, *)
(* whose output and error are the choice made in RenderTemplate.           *)

HandlerRegulations ==
    {RegulationExecutor(d, f, t) : d \in BOOLEAN, f \in RegulationFilters, t \in Templates}

\* the regulation set a compiled regulation list was made from
ResourceOf(regs) ==
    ResourceResponseRegulationSet(
        [i \in DOMAIN regs |->
            ResourceResponseRegulation(regs[i].IsDefault, ~regs[i].Filter.isNil)])

JSONResponse(code, msg) ==
    [FreshResponse EXCEPT !.contentType = "application/json",
                          !.body = <<Envelope(code, msg)>>]

Init ==
    /\ registry = << >> /\ pc = "idle" /\ steps = << >> /\ idx = 0
    /\ defaultRegulation = 0 /\ selected = 0 /\ evaluated = << >>
    /\ response = FreshResponse /\ written = 0 /\ renderErr = ""
    /\ IdleFilterInput /\ IdleSub /\ IdleFilter /\ IdleCheck /\ IdleDice /\ IdleFind

notHandler == <<fe, subVars, filterVars, checkVars, diceVars, findVars>>

\* HandleCreateRule: createRule installs the rule when its regulation set
\* passes check, and the answer is the JSON envelope either way
HandleCreateRule ==
    /\ pc = "idle" /\ registry = << >>
    /\ \E regs \in SeqsUpTo(HandlerRegulations, MaxRegs) :
          LET err == RegulationSetCheck(ResourceOf(regs))
          IN  IF err # ""
              THEN /\ registry' = registry
                   /\ response' = JSONResponse(400, err)
              ELSE /\ registry' = <<Executor(<<"a">>, <<"a">>, regs)>>
                   /\ response' = JSONResponse(200, "")
    /\ UNCHANGED <<request, pc, steps, idx, defaultRegulation, selected, evaluated,
                   written, renderErr, notHandler>>

Receive(req) ==
    /\ pc = "idle"
    /\ request' = req
    /\ response' = FreshResponse
    /\ steps' = <<"Received">>
    /\ pc' = "find"
    /\ UNCHANGED <<registry, idx, defaultRegulation, selected, evaluated, written,
                   renderErr, notHandler>>

\* defaultRuleManager.findExecutor: an installed executor that matches
Founded == \E i \in DOMAIN registry : Match(registry[i], request.path, request.method)
re == registry[CHOOSE i \in DOMAIN registry : Match(registry[i], request.path, request.method)]

FindExecutor ==
    /\ pc = "find"
    /\ IF ~Founded
       THEN /\ response' = [response EXCEPT
                               !.contentType = "application/json",
                               !.body = <<Envelope(400, "no rule match your request")>>]
            /\ steps' = Append(steps, "NoMatch")
            /\ pc' = "done"
            /\ idx' = idx
       ELSE /\ response' = response
            /\ steps' = Append(steps, "PathMethodMatched")
            /\ pc' = "loop"
            /\ idx' = 1
    /\ UNCHANGED <<request, registry, defaultRegulation, selected, evaluated, written,
                   renderErr, notHandler>>

\* faulty variant: a passing filter is recorded but the loop goes on
RegulationLoop_NoStop ==
    /\ pc = "loop" /\ idx <= Len(re.Regulations)
    /\ defaultRegulation' = IF re.Regulations[idx].IsDefault THEN idx ELSE defaultRegulation
    /\ evaluated' = Append(evaluated, idx)
    /\ idx' = idx + 1
    /\ IF ~FilterExecutorFilter(re.Regulations[idx].Filter, request)
       THEN UNCHANGED <<selected, steps, pc>>
       ELSE /\ selected' = idx
            /\ steps' = IF selected = 0 THEN Append(steps, "RegulationSelected") ELSE steps
            /\ pc' = IF idx = Len(re.Regulations) THEN "render" ELSE pc
    /\ UNCHANGED <<request, registry, response, written, renderErr, notHandler>>

\* one pass of the loop over re.responseRegulations
RegulationLoop ==
    /\ pc = "loop" /\ idx <= Len(re.Regulations)
    /\ defaultRegulation' = IF re.Regulations[idx].IsDefault THEN idx ELSE defaultRegulation
    /\ evaluated' = Append(evaluated, idx)
    /\ IF ~FilterExecutorFilter(re.Regulations[idx].Filter, request)
       THEN /\ idx' = idx + 1
            /\ UNCHANGED <<selected, steps, pc>>
       ELSE /\ selected' = idx
            /\ steps' = Append(steps, "RegulationSelected")
            /\ pc' = "render"
            /\ idx' = idx
    /\ UNCHANGED <<request, registry, response, written, renderErr, notHandler>>

\* faulty variant: the test for a missing default inverted
NoRegulationMatched_Inverted ==
    /\ pc = "loop" /\ idx > Len(re.Regulations)
    /\ IF defaultRegulation # 0
       THEN /\ response' = [response EXCEPT
                               !.contentType = "application/json",
                               !.body = <<Envelope(400, "missing matched response regulation")>>]
            /\ steps' = Append(steps, "NoRegulation")
            /\ pc' = "done"
            /\ selected' = selected
       ELSE /\ response' = response
            /\ selected' = defaultRegulation
            /\ steps' = Append(steps, "RegulationSelected")
            /\ pc' = "render"
    /\ UNCHANGED <<request, registry, idx, defaultRegulation, evaluated, written,
                   renderErr, notHandler>>

\* after the loop: no filter passed
NoRegulationMatched ==
    /\ pc = "loop" /\ idx > Len(re.Regulations)
    /\ IF defaultRegulation = 0
       THEN /\ response' = [response EXCEPT
                               !.contentType = "application/json",
                               !.body = <<Envelope(400, "missing matched response regulation")>>]
            /\ steps' = Append(steps, "NoRegulation")
            /\ pc' = "done"
            /\ selected' = selected
       ELSE /\ response' = response
            /\ selected' = defaultRegulation
            /\ steps' = Append(steps, "RegulationSelected")
            /\ pc' = "render"
    /\ UNCHANGED <<request, registry, idx, defaultRegulation, evaluated, written,
                   renderErr, notHandler>>

rt == re.Regulations[selected].Template

\* render: rt.header.CopyTo, then the static body or on to the template
RenderCopyHeader ==
    /\ pc = "render"
    /\ IF rt.isTemplate
       THEN /\ response' = [response EXCEPT !.statusCode = rt.header.statusCode,
                                            !.contentType = rt.header.contentType]
            /\ pc' = "execute"
            /\ steps' = steps
       ELSE /\ response' = [response EXCEPT !.statusCode = rt.header.statusCode,
                                            !.contentType = rt.header.contentType,
                                            !.body = rt.body]
            /\ pc' = "done"
            /\ steps' = Append(steps, "Rendered")
    /\ UNCHANGED <<request, registry, idx, defaultRegulation, selected, evaluated,
                   written, renderErr, notHandler>>

\* rt.render: the template writes its first n pieces to the body writer and
\* returns nil after the last one, or an error at any point
RenderTemplate ==
    /\ pc = "execute"
    /\ \E n \in 0..Len(rt.body), failed \in BOOLEAN :
          /\ ~failed => n = Len(rt.body)
          /\ response' = [response EXCEPT !.body = response.body \o SubSeq(rt.body, 1, n)]
          /\ written' = n
          /\ renderErr' = IF failed THEN "template: execute error" ELSE ""
    /\ pc' = "executed"
    /\ UNCHANGED <<request, registry, steps, idx, defaultRegulation, selected, evaluated,
                   notHandler>>

\* faulty variant: the envelope written after what the template left in the body
RenderReturn_AppendBody ==
    /\ pc = "executed"
    /\ IF renderErr # ""
       THEN /\ response' = [response EXCEPT
                               !.body = Append(response.body, Envelope(400, renderErr))]
            /\ steps' = Append(steps, "RenderFailed")
       ELSE /\ response' = response
            /\ steps' = Append(steps, "Rendered")
    /\ pc' = "done"
    /\ UNCHANGED <<request, registry, idx, defaultRegulation, selected, evaluated,
                   written, renderErr, notHandler>>

\* render, after rt.render returned
RenderReturn ==
    /\ pc = "executed"
    /\ IF renderErr # ""
       THEN /\ response' = [response EXCEPT !.body = <<Envelope(400, renderErr)>>]
            /\ steps' = Append(steps, "RenderFailed")
       ELSE /\ response' = response
            /\ steps' = Append(steps, "Rendered")
    /\ pc' = "done"
    /\ UNCHANGED <<request, registry, idx, defaultRegulation, selected, evaluated,
                   written, renderErr, notHandler>>

Next ==
    \/ HandleCreateRule
    \/ \E req \in HandlerRequests : Receive(req)
    \/ FindExecutor
    \/ RegulationLoop
    \/ NoRegulationMatched
    \/ RenderCopyHeader
    \/ RenderTemplate
    \/ RenderReturn

Spec == Init /\ [][Next]_vars

\* the request got past findExecutor with an executor
Matched == Len(steps) >= 2 /\ steps[2] = "PathMethodMatched"

Last(q) == q[Len(q)]

\* C1: the regulations' filters are called in the configured order; the
\* regulation selected is the first whose filter passes, and no regulation
\* after the selected one has its filter called.  FindRegulationExecutor and
\* the loop of HandleMockedAPI agree on the regulation and on the calls.
FirstPassingSelected ==
    Matched =>
        LET regs == re.Regulations
            passing == {i \in DOMAIN regs : Passes(regs, i)}
        IN  /\ evaluated = [i \in 1..Len(evaluated) |-> i]
            /\ \A i \in 1..(Len(evaluated) - 1) : i \notin passing
            /\ (selected # 0 /\ passing # {}) =>
                  /\ selected \in passing
                  /\ \A i \in passing : selected <= i
                  /\ Len(evaluated) = selected
            /\ selected # 0 =>
                  FindRegulationExecutor(re, request) =
                      [reg |-> selected, evaluated |-> evaluated]

\* three regulations: the first one's filter fails, the filters of the second
\* and the third would both pass; the second was rendered and the third one's
\* filter was never called
LaterPassingNotEvaluated ==
    /\ pc = "done" /\ Matched
    /\ Len(re.Regulations) = 3
    /\ ~re.Regulations[2].Filter.isNil /\ ~re.Regulations[3].Filter.isNil
    /\ ~Passes(re.Regulations, 1)
    /\ Passes(re.Regulations, 2) /\ Passes(re.Regulations, 3)
    /\ selected = 2 /\ evaluated = <<1, 2>>

RequestPaths ==
    {<<"Received", "NoMatch">>,
     <<"Received", "PathMethodMatched", "RegulationSelected", "Rendered">>,
     <<"Received", "PathMethodMatched", "RegulationSelected", "RenderFailed">>}

IsPrefix(p, q) == Len(p) <= Len(q) /\ SubSeq(q, 1, Len(p)) = p

IsEnvelope(body) == Len(body) = 1 /\ body[1].json

\* C7: a request goes through Received, PathMethodMatched,
\* RegulationSelected, then Rendered or RenderFailed, in that order, no step
\* skipped or repeated, and ends in one outcome: a rendered body or an error
\* envelope.  A request no executor matches has no filter called and nothing
\* rendered, and gets the envelope 400 "no rule match your request".
RequestStateMachine ==
    /\ \E p \in RequestPaths : IsPrefix(steps, p)
    /\ (pc = "done") <=> (steps \in RequestPaths)
    /\ Len(steps) >= 2 => ((steps[2] = "NoMatch") <=> ~Founded)
    /\ pc = "done" =>
          /\ Last(steps) = "Rendered" =>
                (response.body = rt.body /\ \A i \in DOMAIN response.body : ~response.body[i].json)
          /\ Last(steps) = "RenderFailed" =>
                (IsEnvelope(response.body) /\ response.body[1].code = 400)
          /\ Last(steps) = "NoMatch" =>
                /\ response.body = <<Envelope(400, "no rule match your request")>>
                /\ evaluated = << >> /\ selected = 0 /\ written = 0

\* no filter passed, the default was taken, and its template failed
FallbackRenderFailed ==
    /\ pc = "done"
    /\ steps = <<"Received", "PathMethodMatched", "RegulationSelected", "RenderFailed">>
    /\ Len(evaluated) = Len(re.Regulations)
    /\ \A i \in DOMAIN re.Regulations : ~Passes(re.Regulations, i)
    /\ selected = defaultRegulation

\* C8: for a template response the regulation's status code and headers are
\* on the response before the template is executed; when execution fails
\* they are still there, and the body is the error envelope alone (code 400,
\* err_msg the render error), with nothing of what the template had written.
RenderFailureKeepsHeader ==
    /\ pc \in {"execute", "executed"} =>
          /\ response.statusCode = rt.header.statusCode
          /\ response.contentType = rt.header.contentType
          /\ pc = "execute" => (response.body = << >> /\ written = 0)
    /\ (pc = "done" /\ Last(steps) = "RenderFailed") =>
          /\ renderErr # ""
          /\ response.statusCode = rt.header.statusCode
          /\ response.contentType = rt.header.contentType
          /\ response.body = <<Envelope(400, renderErr)>>

\* the template had written a piece before it failed, and the body is the
\* envelope alone
PartialOutputReplaced ==
    /\ pc = "done" /\ Last(steps) = "RenderFailed"
    /\ written > 0
    /\ response.body = <<Envelope(400, renderErr)>>

\* C9: whenever the answer to a mocked request is an error envelope (no
\* matching rule, no matching regulation, render failure), the envelope has
\* code 400 and the response content type is application/json.
ErrorEnvelopeIsJSON ==
    (pc = "done" /\ IsEnvelope(response.body)) =>
        /\ response.body[1].code = 400
        /\ response.contentType = "application/json"

====
